---- MODULE Spec2Model ----
(***************************************************************************)
(* Model of the two-stage sales pipeline: tax_data_cleaner.py              *)
(* (clean_sales_data) followed by sales_analyzer.py (analyze_sales_data).  *)
(* A run of the Cleaner is a sequence of steps over the data frame df; the *)
(* Analyzer is started once the Cleaner has ended and reads whatever the   *)
(* Cleaner left on disk.                                                   *)
(*                                                                         *)
(* Cells.  A missing numeric or product_id cell is NaN, a missing text     *)
(* cell (the empty CSV field) is NoText.  A present sales_amount n is the  *)
(* one-element tuple <<n>> (amounts are whole currency units here), a      *)
(* product_id is a sequence of characters, a parsed date is <<y, m, d>>.   *)
(* product_name and customer_id are never read by either stage and are     *)
(* left out of the rows; transaction_id keeps otherwise equal rows apart.  *)
(*                                                                         *)
(* pandas.  The chained df[col].fillna(..., inplace=True) of lines 36-37   *)
(* is taken to fill the frame, as it does under the pandas the code was    *)
(* written for (before copy-on-write).  Where pandas releases differ in a  *)
(* way that decides whether a run fails (to_datetime on mixed UTC offsets, *)
(* row-wise apply on a frame without rows) every outcome is an action.     *)
(***************************************************************************)
EXTENDS Integers, Sequences, FiniteSets, TLC

\* Largest number of rows of a raw dataset.
MaxRows == 3

NaN == <<>>
NaT == <<>>
NoText == ""
NoException == "none"

Val(cell) == cell[1]

Range(s) == {s[i] : i \in DOMAIN s}

----------------------------------------------------------------------------
(* Text helpers: str.upper and str.startswith on character sequences.      *)

LowerCase ==
  <<"a","b","c","d","e","f","g","h","i","j","k","l","m",
    "n","o","p","q","r","s","t","u","v","w","x","y","z">>

UpperCase ==
  <<"A","B","C","D","E","F","G","H","I","J","K","L","M",
    "N","O","P","Q","R","S","T","U","V","W","X","Y","Z">>

UpperChar(c) ==
  IF \E i \in DOMAIN LowerCase : LowerCase[i] = c
  THEN UpperCase[CHOOSE i \in DOMAIN LowerCase : LowerCase[i] = c]
  ELSE c

Upper(str) == [i \in DOMAIN str |-> UpperChar(str[i])]

StartsWith(str, prefix) ==
  /\ Len(str) >= Len(prefix)
  /\ SubSeq(str, 1, Len(prefix)) = prefix

----------------------------------------------------------------------------
(* Dates.  pd.to_datetime(errors='coerce') on one cell: several spellings  *)
(* denote the same day, anything else (and a missing cell) becomes NaT.    *)

ParseDate(text) ==
  CASE text = "01/15/2024" -> <<2024, 1, 15>>
    [] text = "1/15/2024" -> <<2024, 1, 15>>
    [] text = "04/16/2024" -> <<2024, 4, 16>>
    [] text = "2024-01-15" -> <<2024, 1, 15>>
    [] text = "2024-01-16" -> <<2024, 1, 16>>
    [] text = "2024-04-16" -> <<2024, 4, 16>>
    [] text = "2024-01-15T10:00+01:00" -> <<2024, 1, 15>>
    [] text = "2024-01-16T10:00+02:00" -> <<2024, 1, 16>>
    [] OTHER -> NaT

\* The UTC offset a date string carries; 0 for a string without one.
UtcOffset(text) ==
  CASE text = "2024-01-15T10:00+01:00" -> 1
    [] text = "2024-01-16T10:00+02:00" -> 2
    [] OTHER -> 0

\* How to_csv writes a datetime64 cell.
FormatDate(date) ==
  CASE date = <<2024, 1, 15>> -> "2024-01-15"
    [] date = <<2024, 1, 16>> -> "2024-01-16"
    [] date = <<2024, 4, 16>> -> "2024-04-16"
    [] OTHER -> NoText

DateLess(a, b) ==
  \/ a[1] < b[1]
  \/ a[1] = b[1] /\ a[2] < b[2]
  \/ a[1] = b[1] /\ a[2] = b[2] /\ a[3] < b[3]

Quarter(date) == ((date[2] - 1) \div 3) + 1

MonthPeriod(date) == <<date[1], date[2]>>

----------------------------------------------------------------------------
(* Raw datasets.                                                           *)

Row(id, date, pid, amount, st) ==
  [transaction_id |-> id, transaction_date |-> date, product_id |-> pid,
   sales_amount |-> amount, state |-> st]

ELE1 == <<"E","L","E","-","1">>
Clo2 == <<"C","l","o","-","2">>
gro3 == <<"g","r","o","-","3">>

\* Rows whose interplay the cleaning steps decide: two spellings of one day,
\* a missing and a zero amount, a missing and a literal UNKNOWN state, a
\* negative amount, an unparseable and a missing date, a missing product_id.
PlainRows ==
  { Row(1, "01/15/2024", ELE1, <<5>>, "CA"),
    Row(1, "1/15/2024", ELE1, <<5>>, "CA"),
    Row(1, "01/15/2024", ELE1, <<-1>>, "CA"),
    Row(2, "01/15/2024", gro3, NaN, NoText),
    Row(2, "01/15/2024", gro3, <<0>>, "UNKNOWN"),
    Row(3, "not-a-date", Clo2, <<7>>, "NY"),
    Row(3, NoText, Clo2, <<7>>, "NY"),
    Row(7, "04/16/2024", gro3, <<12>>, "CA"),
    Row(4, "04/16/2024", NaN, <<7>>, "AZ"),
    Row(5, "04/16/2024", <<"E","L">>, <<7>>, "TX") }

\* Rows whose timestamps carry a UTC offset.
OffsetRows ==
  { Row(6, "2024-01-15T10:00+01:00", Clo2, <<5>>, "NY"),
    Row(6, "2024-01-16T10:00+02:00", Clo2, <<5>>, "NY"),
    Row(6, "2024-01-16T10:00+02:00", Clo2, <<-1>>, "NY") }

ProductIds ==
  { NaN, ELE1, <<"e","l","e","-","1">>, Clo2, <<"C","L","O">>, gro3,
    <<"G","R","O","-","3">>, <<"E","L">>, <<"O","T","H","E","R","-","9">>,
    <<"X","E","L","E">> }

States == { NoText, "CA", "NY", "TX", "AZ", "UNKNOWN" }

\* One row for every (product_id, state) pair.
ProductStateRows ==
  { Row(9, "04/16/2024", p, <<3>>, s) : p \in ProductIds, s \in States }

SeqsUpTo(S, n) == UNION { [1..k -> S] : k \in 0..n }

\* The raw CSV files the Cleaner is run on.  to_datetime reads a column in
\* one style, so a dataset's timestamps either all carry an offset or none
\* does.
RawDatasets ==
  SeqsUpTo(PlainRows, MaxRows) \cup SeqsUpTo(OffsetRows, MaxRows)
    \cup { <<r>> : r \in ProductStateRows }

RawFiles ==
  { [exists |-> TRUE, readable |-> TRUE, rows |-> d] : d \in RawDatasets }
    \cup { [exists |-> FALSE, readable |-> FALSE, rows |-> <<>>],
           [exists |-> TRUE, readable |-> FALSE, rows |-> <<>>] }

NoFile == [exists |-> FALSE, rows |-> <<>>]

----------------------------------------------------------------------------
(* Data-frame operations used by clean_sales_data.                         *)

WithColumn(row, name, value) ==
  [f \in DOMAIN row \cup {name} |-> IF f = name THEN value ELSE row[f]]

\* pd.read_csv: the rows of the file, one record per line.
ReadCsv(file) == file.rows

\* Step 1: fillna(0) on sales_amount, fillna('UNKNOWN') on state.
fillna(rows) ==
  [i \in DOMAIN rows |->
     [rows[i] EXCEPT !.sales_amount = IF @ = NaN THEN <<0>> ELSE @,
                     !.state = IF @ = NoText THEN "UNKNOWN" ELSE @]]

\* Mutant of step 2: keep='last', the last of the equal rows is kept.
drop_duplicates_keep_last(rows) ==
  LET kept[i \in 0..Len(rows)] ==
        IF i = 0 THEN <<>>
        ELSE LET at == Len(rows) + 1 - i
             IN IF \E j \in (at + 1)..Len(rows) : rows[j] = rows[at]
                THEN kept[i - 1]
                ELSE <<rows[at]>> \o kept[i - 1]
  IN kept[Len(rows)]

\* Mutant of step 2: subset=['transaction_id'], rows are duplicates when
\* their transaction_id is equal.
drop_duplicates_by_transaction_id(rows) ==
  LET kept[i \in 0..Len(rows)] ==
        IF i = 0 THEN <<>>
        ELSE IF \E j \in 1..(i - 1) :
                  rows[j].transaction_id = rows[i].transaction_id
             THEN kept[i - 1]
             ELSE Append(kept[i - 1], rows[i])
  IN kept[Len(rows)]

\* Step 2: drop_duplicates keeps the first of the rows equal in every column
\* (two missing cells count as equal).
drop_duplicates(rows) ==
  LET kept[i \in 0..Len(rows)] ==
        IF i = 0 THEN <<>>
        ELSE IF \E j \in 1..(i - 1) : rows[j] = rows[i]
             THEN kept[i - 1]
             ELSE Append(kept[i - 1], rows[i])
  IN kept[Len(rows)]

\* Step 3: df[df['sales_amount'] >= 0]; a comparison with NaN is False.
NonNegative(row) == row.sales_amount # NaN /\ Val(row.sales_amount) >= 0

filter_nonnegative(rows) == SelectSeq(rows, NonNegative)

\* Step 4: to_datetime(errors='coerce') then dropna on transaction_date.
to_datetime(rows) ==
  [i \in DOMAIN rows |->
     [rows[i] EXCEPT !.transaction_date = ParseDate(@)]]

HasDate(row) == row.transaction_date # NaT

dropna_dates(rows) == SelectSeq(rows, HasDate)

\* Timestamps with differing UTC offsets in one column: to_datetime does not
\* return a datetime64 column for them.
MixedOffsets(rows) ==
  \E i, j \in DOMAIN rows :
    /\ UtcOffset(rows[i].transaction_date) # 0
    /\ UtcOffset(rows[j].transaction_date) # 0
    /\ UtcOffset(rows[i].transaction_date) # UtcOffset(rows[j].transaction_date)

\* Step 5: transaction_month and transaction_quarter.
derive_features(rows) ==
  [i \in DOMAIN rows |->
     WithColumn(
       WithColumn(rows[i], "transaction_month",
                  MonthPeriod(rows[i].transaction_date)),
       "transaction_quarter", Quarter(rows[i].transaction_date))]

\* Mutant of step 6: the prefix is compared without upper().
categorize_product_case_sensitive(product_id) ==
  IF product_id = NaN THEN "UNCATEGORIZED"
  ELSE IF StartsWith(product_id, <<"E","L","E">>) THEN "ELECTRONICS"
  ELSE IF StartsWith(product_id, <<"C","L","O">>) THEN "CLOTHING"
  ELSE IF StartsWith(product_id, <<"G","R","O">>) THEN "GROCERIES"
  ELSE "OTHER"

\* Mutant of step 6: a missing product_id is given no category.
categorize_product_missing_stays_missing(product_id) ==
  IF product_id = NaN THEN NoText
  ELSE LET product_str == Upper(product_id)
       IN IF StartsWith(product_str, <<"E","L","E">>) THEN "ELECTRONICS"
          ELSE IF StartsWith(product_str, <<"C","L","O">>) THEN "CLOTHING"
          ELSE IF StartsWith(product_str, <<"G","R","O">>) THEN "GROCERIES"
          ELSE "OTHER"

\* Step 6.
categorize_product(product_id) ==
  IF product_id = NaN THEN "UNCATEGORIZED"
  ELSE LET product_str == Upper(product_id)
       IN IF StartsWith(product_str, <<"E","L","E">>) THEN "ELECTRONICS"
          ELSE IF StartsWith(product_str, <<"C","L","O">>) THEN "CLOTHING"
          ELSE IF StartsWith(product_str, <<"G","R","O">>) THEN "GROCERIES"
          ELSE "OTHER"

apply_categorize(rows) ==
  [i \in DOMAIN rows |->
     WithColumn(rows[i], "product_category",
                categorize_product(rows[i].product_id))]

\* Mutant of step 7: the first branch does not look at the category.
determine_tax_jurisdiction_state_first(st, category) ==
  IF st \in {"CA", "NY", "TX"} THEN "STANDARD"
  ELSE IF category = "GROCERIES" THEN "GROCERY_EXEMPT"
  ELSE "REDUCED_RATE"

\* Step 7.
determine_tax_jurisdiction(st, category) ==
  IF st \in {"CA", "NY", "TX"} /\ category # "GROCERIES" THEN "STANDARD"
  ELSE IF category = "GROCERIES" THEN "GROCERY_EXEMPT"
  ELSE "REDUCED_RATE"

apply_jurisdiction(rows) ==
  [i \in DOMAIN rows |->
     WithColumn(rows[i], "tax_jurisdiction",
                determine_tax_jurisdiction(rows[i].state,
                                           rows[i].product_category))]

\* df.to_csv: a datetime64 cell is written in ISO form, the rest as it is.
ToCsv(rows) ==
  [i \in DOMAIN rows |->
     [rows[i] EXCEPT !.transaction_date = FormatDate(@)]]

\* Series.sum of sales_amount (missing cells are skipped).
SumAmounts(rows) ==
  LET acc[i \in 0..Len(rows)] ==
        IF i = 0 THEN 0
        ELSE acc[i - 1] + (IF rows[i].sales_amount = NaN THEN 0
                           ELSE Val(rows[i].sales_amount))
  IN acc[Len(rows)]

\* groupby(key)['sales_amount'].agg(['sum', 'count']): one group per key
\* present; rows whose key is missing belong to no group.  missing is the
\* missing value of the key's column.
GroupBy(rows, key, missing) ==
  [k \in {rows[i][key] : i \in DOMAIN rows} \ {missing} |->
     LET grp == SelectSeq(rows, LAMBDA row : row[key] = k)
     IN [sum |-> SumAmounts(grp), count |-> Len(grp)]]

----------------------------------------------------------------------------
VARIABLES
  rawFile,             \* the input CSV on disk
  outFile,             \* the cleaned CSV on disk
  pc,                  \* position of clean_sales_data
  df,                  \* its data frame
  dateDtype,           \* dtype of df['transaction_date']
  duplicates_removed,  \* the logged count of removed duplicates
  summary,             \* the printed cleaning summary
  exc,                 \* the exception caught by the Cleaner's handlers
  propagated,          \* the exception the Cleaner's caller receives
  failures,            \* where an exception has been raised so far
  warnings,            \* the failures logged as warnings
  apc,                 \* position of analyze_sales_data
  adf,                 \* its data frame
  report,              \* the printed report
  dashboard,           \* whether sales_analysis_dashboard.png was saved
  aexc,                \* the exception caught by the Analyzer's handler
  apropagated          \* the exception the Analyzer's caller receives

cleanerVars ==
  <<pc, df, dateDtype, duplicates_removed, summary, exc, propagated, outFile>>

analyzerVars == <<apc, adf, report, dashboard, aexc, apropagated>>

vars == <<rawFile, cleanerVars, failures, warnings, analyzerVars>>

NoSummary == [total |-> 0, state_summary |-> <<>>, category_summary |-> <<>>]

NoReport ==
  [period |-> <<>>, transactions |-> 0, total |-> 0, category_stats |-> <<>>,
   top_state |-> NoText, best_day |-> NaT]

Init ==
  /\ rawFile \in RawFiles
  /\ outFile = NoFile
  /\ pc = "read"
  /\ df = <<>>
  /\ dateDtype = "object"
  /\ duplicates_removed = 0
  /\ summary = NoSummary
  /\ exc = NoException
  /\ propagated = NoException
  /\ failures = {}
  /\ warnings = {}
  /\ apc = "load"
  /\ adf = <<>>
  /\ report = NoReport
  /\ dashboard = FALSE
  /\ aexc = NoException
  /\ apropagated = NoException

----------------------------------------------------------------------------
(* clean_sales_data, tax_data_cleaner.py.                                  *)

\* An exception raised in the try body reaches the handlers of lines 111-116.
CRaise(kind, site) ==
  /\ exc' = kind
  /\ failures' = failures \cup {site}
  /\ pc' = "except"
  /\ UNCHANGED <<df, dateDtype, duplicates_removed, summary, propagated,
                 outFile, warnings>>

CRead ==
  /\ pc = "read"
  /\ IF ~rawFile.exists THEN CRaise("FileNotFoundError", "read_csv")
     ELSE IF ~rawFile.readable THEN CRaise("EmptyDataError", "read_csv")
     ELSE /\ df' = ReadCsv(rawFile)
          /\ pc' = "fillna"
          /\ UNCHANGED <<dateDtype, duplicates_removed, summary, exc,
                         propagated, outFile, failures, warnings>>
  /\ UNCHANGED <<rawFile, analyzerVars>>

CFillNa ==
  /\ pc = "fillna"
  /\ df' = fillna(df)
  /\ pc' = "dedup"
  /\ UNCHANGED <<rawFile, dateDtype, duplicates_removed, summary, exc,
                 propagated, outFile, failures, warnings, analyzerVars>>

CDropDuplicates ==
  /\ pc = "dedup"
  /\ df' = drop_duplicates(df)
  /\ duplicates_removed' = Len(df) - Len(df')
  /\ pc' = "filter"
  /\ UNCHANGED <<rawFile, dateDtype, summary, exc, propagated, outFile,
                 failures, warnings, analyzerVars>>

CFilterNegative ==
  /\ pc = "filter"
  /\ df' = filter_nonnegative(df)
  /\ pc' = "dates"
  /\ UNCHANGED <<rawFile, dateDtype, duplicates_removed, summary, exc,
                 propagated, outFile, failures, warnings, analyzerVars>>

\* Lines 49-52 when to_datetime returns a datetime64 column.
CConvertDates ==
  /\ pc = "dates"
  /\ ~MixedOffsets(df)
  /\ df' = dropna_dates(to_datetime(df))
  /\ dateDtype' = "datetime64"
  /\ pc' = "features"
  /\ UNCHANGED <<rawFile, duplicates_removed, summary, exc, propagated,
                 outFile, failures, warnings, analyzerVars>>

\* Lines 49-52 on mixed offsets where to_datetime returns an object column
\* of datetime objects: nothing is missing, dropna removes nothing.
CConvertDatesObject ==
  /\ pc = "dates"
  /\ MixedOffsets(df)
  /\ pc' = "features"
  /\ UNCHANGED <<rawFile, df, dateDtype, duplicates_removed, summary, exc,
                 propagated, outFile, failures, warnings, analyzerVars>>

\* Lines 49-54 on mixed offsets where to_datetime raises: the inner handler
\* logs a warning and the function goes on with the column as it was.
CConvertDatesWarn ==
  /\ pc = "dates"
  /\ MixedOffsets(df)
  /\ failures' = failures \cup {"to_datetime"}
  /\ warnings' = warnings \cup {"to_datetime"}
  /\ pc' = "features"
  /\ UNCHANGED <<rawFile, df, dateDtype, duplicates_removed, summary, exc,
                 propagated, outFile, analyzerVars>>

\* Lines 57-58: the .dt accessor exists on a datetime64 column only.
CDeriveFeatures ==
  /\ pc = "features"
  /\ IF dateDtype # "datetime64" THEN CRaise("AttributeError", "dt_accessor")
     ELSE /\ df' = derive_features(df)
          /\ pc' = "categorize"
          /\ UNCHANGED <<dateDtype, duplicates_removed, summary, exc,
                         propagated, outFile, failures, warnings>>
  /\ UNCHANGED <<rawFile, analyzerVars>>

CCategorize ==
  /\ pc = "categorize"
  /\ df' = apply_categorize(df)
  /\ pc' = "jurisdiction"
  /\ UNCHANGED <<rawFile, dateDtype, duplicates_removed, summary, exc,
                 propagated, outFile, failures, warnings, analyzerVars>>

\* Lines 85-88.
CJurisdiction ==
  /\ pc = "jurisdiction"
  /\ df' = apply_jurisdiction(df)
  /\ pc' = "save"
  /\ UNCHANGED <<rawFile, dateDtype, duplicates_removed, summary, exc,
                 propagated, outFile, failures, warnings, analyzerVars>>

\* Lines 85-88 on a frame without rows, under a pandas whose row-wise apply
\* returns a copy of the empty frame instead of an empty column: assigning
\* a frame to the single column raises ValueError.  Under a pandas whose
\* apply returns the empty column, CJurisdiction is taken.
CJurisdictionEmptyFrame ==
  /\ pc = "jurisdiction"
  /\ df = <<>>
  /\ CRaise("ValueError", "apply")
  /\ UNCHANGED <<rawFile, analyzerVars>>

CSave ==
  /\ pc = "save"
  /\ outFile' = [exists |-> TRUE, rows |-> ToCsv(df)]
  /\ pc' = "summary"
  /\ UNCHANGED <<rawFile, df, dateDtype, duplicates_removed, summary, exc,
                 propagated, failures, warnings, analyzerVars>>

CSummary ==
  /\ pc = "summary"
  /\ summary' = [total |-> SumAmounts(df),
                 state_summary |-> GroupBy(df, "state", NoText),
                 category_summary |-> GroupBy(df, "product_category", NoText)]
  /\ pc' = "returned"
  /\ UNCHANGED <<rawFile, df, dateDtype, duplicates_removed, exc, propagated,
                 outFile, failures, warnings, analyzerVars>>

\* Lines 111-113: except FileNotFoundError: log, raise.
CExceptFileNotFound ==
  /\ pc = "except"
  /\ exc = "FileNotFoundError"
  /\ propagated' = exc
  /\ pc' = "raised"
  /\ UNCHANGED <<rawFile, df, dateDtype, duplicates_removed, summary, exc,
                 outFile, failures, warnings, analyzerVars>>

\* Mutant of lines 114-116: the handler logs and does not raise.
CExceptException_swallows ==
  /\ pc = "except"
  /\ exc # "FileNotFoundError"
  /\ pc' = "returned"
  /\ UNCHANGED <<rawFile, df, dateDtype, duplicates_removed, summary, exc,
                 propagated, outFile, failures, warnings, analyzerVars>>

\* Lines 114-116: except Exception: log, raise.
CExceptException ==
  /\ pc = "except"
  /\ exc # "FileNotFoundError"
  /\ propagated' = exc
  /\ pc' = "raised"
  /\ UNCHANGED <<rawFile, df, dateDtype, duplicates_removed, summary, exc,
                 outFile, failures, warnings, analyzerVars>>

Cleaner ==
  \/ CRead
  \/ CFillNa
  \/ CDropDuplicates
  \/ CFilterNegative
  \/ CConvertDates
  \/ CConvertDatesObject
  \/ CConvertDatesWarn
  \/ CDeriveFeatures
  \/ CCategorize
  \/ CJurisdiction
  \/ CJurisdictionEmptyFrame
  \/ CSave
  \/ CSummary
  \/ CExceptFileNotFound
  \/ CExceptException

----------------------------------------------------------------------------
(* analyze_sales_data and create_visualizations, sales_analyzer.py.  The   *)
(* Analyzer is run after the Cleaner has ended.                            *)

Min(a, b) == IF a <= b THEN a ELSE b

\* head(): the first five rows.
Head5(s) == SubSeq(s, 1, Min(5, Len(s)))

\* sort_values(ascending=False) over the groups of g: the orders of its keys
\* in which the sums do not increase (groups of equal sum come in any order).
SortedDescending(g) ==
  { o \in [1..Cardinality(DOMAIN g) -> DOMAIN g] :
      /\ \A i, j \in DOMAIN o : i # j => o[i] # o[j]
      /\ \A i, j \in DOMAIN o : i < j => g[o[i]].sum >= g[o[j]].sum }

\* idxmax: the first label, in date order, whose sum is the largest.
idxmax(g) ==
  CHOOSE d \in DOMAIN g :
    /\ \A e \in DOMAIN g : g[d].sum >= g[e].sum
    /\ \A e \in DOMAIN g : g[e].sum = g[d].sum => (e = d \/ DateLess(d, e))

MinDate(rows) ==
  CHOOSE d \in {rows[i].transaction_date : i \in DOMAIN rows} :
    \A i \in DOMAIN rows :
      d = rows[i].transaction_date \/ DateLess(d, rows[i].transaction_date)

MaxDate(rows) ==
  CHOOSE d \in {rows[i].transaction_date : i \in DOMAIN rows} :
    \A i \in DOMAIN rows :
      d = rows[i].transaction_date \/ DateLess(rows[i].transaction_date, d)

\* An exception raised in the try body reaches the handler of lines 60-62.
ARaise(kind, site) ==
  /\ aexc' = kind
  /\ failures' = failures \cup {site}
  /\ apc' = "except"
  /\ UNCHANGED <<adf, report, dashboard, apropagated, warnings>>

CleanerEnded == pc \in {"returned", "raised"}

\* Lines 21-22.
ALoad ==
  /\ CleanerEnded
  /\ apc = "load"
  /\ IF ~outFile.exists THEN ARaise("FileNotFoundError", "analyzer_read_csv")
     ELSE /\ adf' = ReadCsv(outFile)
          /\ apc' = "dates"
          /\ UNCHANGED <<report, dashboard, aexc, apropagated, failures,
                         warnings>>
  /\ UNCHANGED <<rawFile, cleanerVars>>

\* Lines 25-26.
AConvertDates ==
  /\ apc = "dates"
  /\ adf' = to_datetime(adf)
  /\ apc' = "header"
  /\ UNCHANGED <<rawFile, cleanerVars, report, dashboard, aexc, apropagated,
                 failures, warnings>>

\* Lines 28-32: min() and max() of an empty column are NaT.
AHeader ==
  /\ apc = "header"
  /\ report' = [report EXCEPT
                  !.period = IF adf = <<>> THEN <<NaT, NaT>>
                             ELSE <<MinDate(adf), MaxDate(adf)>>,
                  !.transactions = Len(adf),
                  !.total = SumAmounts(adf)]
  /\ apc' = "categories"
  /\ UNCHANGED <<rawFile, cleanerVars, adf, dashboard, aexc, apropagated,
                 failures, warnings>>

\* Lines 38-44.
ACategories ==
  /\ apc = "categories"
  /\ LET category_stats == GroupBy(adf, "product_category", NoText)
     IN \E order \in SortedDescending(category_stats) :
          report' = [report EXCEPT !.category_stats =
                       Head5([i \in DOMAIN order |->
                                [category |-> order[i],
                                 total_sales |-> category_stats[order[i]].sum,
                                 transaction_count |->
                                   category_stats[order[i]].count]])]
  /\ apc' = "states"
  /\ UNCHANGED <<rawFile, cleanerVars, adf, dashboard, aexc, apropagated,
                 failures, warnings>>

\* Lines 47-48: index[0] of an empty index raises.
ATopState ==
  /\ apc = "states"
  /\ LET state_stats == GroupBy(adf, "state", NoText)
     IN IF DOMAIN state_stats = {} THEN ARaise("IndexError", "top_state")
        ELSE /\ \E order \in SortedDescending(state_stats) :
                  report' = [report EXCEPT !.top_state = order[1]]
             /\ apc' = "days"
             /\ UNCHANGED <<adf, dashboard, aexc, apropagated, failures,
                            warnings>>
  /\ UNCHANGED <<rawFile, cleanerVars>>

\* Lines 51-53.
ABestDay ==
  /\ apc = "days"
  /\ LET daily_sales == GroupBy(adf, "transaction_date", NaT)
     IN report' = [report EXCEPT !.best_day = idxmax(daily_sales)]
  /\ apc' = "charts"
  /\ UNCHANGED <<rawFile, cleanerVars, adf, dashboard, aexc, apropagated,
                 failures, warnings>>

\* Lines 56, 66-102: the charts are drawn and saved.
AVisualize ==
  /\ apc = "charts"
  /\ dashboard' = TRUE
  /\ apc' = "finish"
  /\ UNCHANGED <<rawFile, cleanerVars, adf, report, aexc, apropagated,
                 failures, warnings>>

\* Mutant of lines 56, 104-105: create_visualizations lets the exception out.
AVisualizeFails_propagates ==
  /\ apc = "charts"
  /\ ARaise("RuntimeError", "create_visualizations")
  /\ UNCHANGED <<rawFile, cleanerVars>>

\* Lines 56, 104-105: drawing or saving raises; create_visualizations logs a
\* warning and returns.
AVisualizeFails ==
  /\ apc = "charts"
  /\ failures' = failures \cup {"create_visualizations"}
  /\ warnings' = warnings \cup {"create_visualizations"}
  /\ apc' = "finish"
  /\ UNCHANGED <<rawFile, cleanerVars, adf, report, dashboard, aexc,
                 apropagated>>

\* Line 58.
AFinish ==
  /\ apc = "finish"
  /\ apc' = "returned"
  /\ UNCHANGED <<rawFile, cleanerVars, adf, report, dashboard, aexc,
                 apropagated, failures, warnings>>

\* Lines 60-62: except Exception: log, raise.
AExcept ==
  /\ apc = "except"
  /\ apropagated' = aexc
  /\ apc' = "raised"
  /\ UNCHANGED <<rawFile, cleanerVars, adf, report, dashboard, aexc,
                 failures, warnings>>

Analyzer ==
  \/ ALoad
  \/ AConvertDates
  \/ AHeader
  \/ ACategories
  \/ ATopState
  \/ ABestDay
  \/ AVisualize
  \/ AVisualizeFails
  \/ AFinish
  \/ AExcept

Next == Cleaner \/ Analyzer

Spec == Init /\ [][Next]_vars

----------------------------------------------------------------------------
(* Properties.                                                             *)

CleanerRunning == pc \notin {"returned", "raised"}

Categorized == pc \in {"jurisdiction", "save", "summary", "returned"}

Classified == pc \in {"save", "summary", "returned"}

ValidDates == {<<2024, 1, 15>>, <<2024, 1, 16>>, <<2024, 4, 16>>}

\* C1: for every raw dataset with the required columns clean_sales_data
\* completes without error, and every cleaned row has sales_amount >= 0 and
\* a valid parsed transaction_date.
C1_CleanerCompletesValid ==
  (rawFile.exists /\ rawFile.readable) =>
    /\ pc \notin {"except", "raised"}
    /\ pc = "returned" =>
         \A i \in DOMAIN df :
           /\ df[i].sales_amount # NaN
           /\ Val(df[i].sales_amount) >= 0
           /\ df[i].transaction_date \in ValidDates

\* C2: the cleaned output is a fixed point of steps 1-3: re-applying null
\* fill, exact-duplicate removal and the negative-amount filter to it removes
\* no row and changes no value.
C2_CleanedIsFixedPoint ==
  outFile.exists =>
    LET cleaned == ReadCsv(outFile)
    IN filter_nonnegative(drop_duplicates(fillna(cleaned))) = cleaned

Categories ==
  {"ELECTRONICS", "CLOTHING", "GROCERIES", "OTHER", "UNCATEGORIZED"}

\* The product_id begins with the three letters, in either case.
HasPrefix(product_id, letters) ==
  /\ Len(product_id) >= 3
  /\ \A i \in 1..3 : product_id[i] \in letters[i]

ExpectedCategory(product_id) ==
  IF product_id = NaN THEN "UNCATEGORIZED"
  ELSE IF HasPrefix(product_id, <<{"E","e"}, {"L","l"}, {"E","e"}>>)
       THEN "ELECTRONICS"
  ELSE IF HasPrefix(product_id, <<{"C","c"}, {"L","l"}, {"O","o"}>>)
       THEN "CLOTHING"
  ELSE IF HasPrefix(product_id, <<{"G","g"}, {"R","r"}, {"O","o"}>>)
       THEN "GROCERIES"
  ELSE "OTHER"

\* C3: every cleaned row carries a product_category of the five-value enum:
\* UNCATEGORIZED exactly for a missing product_id, otherwise ELECTRONICS,
\* CLOTHING or GROCERIES by the case-insensitive prefix ELE, CLO, GRO, and
\* OTHER for every other product_id.
C3_CategorizationTotal ==
  Categorized =>
    \A i \in DOMAIN df :
      /\ df[i].product_category \in Categories
      /\ df[i].product_category = ExpectedCategory(df[i].product_id)
      /\ (df[i].product_category = "UNCATEGORIZED") <=> (df[i].product_id = NaN)

C3_Witness ==
  /\ pc = "returned"
  /\ \E i \in DOMAIN df :
       /\ df[i].product_id = <<"e","l","e","-","1">>
       /\ df[i].product_category = "ELECTRONICS"

\* C4: every cleaned row's tax_jurisdiction is decided by its state and
\* product_category alone: GROCERY_EXEMPT for GROCERIES in any state,
\* STANDARD for another category in CA, NY or TX, REDUCED_RATE otherwise.
C4_JurisdictionRule ==
  Classified =>
    \A i \in DOMAIN df :
      df[i].tax_jurisdiction =
        CASE df[i].product_category = "GROCERIES" -> "GROCERY_EXEMPT"
          [] df[i].product_category # "GROCERIES"
               /\ df[i].state \in {"CA", "NY", "TX"} -> "STANDARD"
          [] OTHER -> "REDUCED_RATE"

C4_Witness ==
  /\ pc = "returned"
  /\ \E i \in DOMAIN df :
       /\ df[i].state = "CA"
       /\ df[i].product_category = "GROCERIES"
       /\ df[i].tax_jurisdiction = "GROCERY_EXEMPT"

FirstIndex(rows, row) ==
  CHOOSE i \in DOMAIN rows :
    rows[i] = row /\ \A j \in 1..(i - 1) : rows[j] # row

\* C5 as stated: the groups are those of the raw rows: one row is kept for
\* each distinct raw row, and the logged count is the number of raw rows
\* minus the number of distinct raw rows.
C5_DedupOverRawRows ==
  pc = "filter" =>
    LET raw == ReadCsv(rawFile)
    IN /\ Len(df) = Cardinality(Range(raw))
       /\ duplicates_removed = Len(raw) - Cardinality(Range(raw))

\* C5 amended: deduplication keeps exactly the earliest occurrence of each
\* group of rows that are identical in all fields after the null fill of
\* step 1, in their original order, and the logged count is the number of
\* input rows minus the number of distinct null-filled rows.
C5_DedupOverFilledRows ==
  pc = "filter" =>
    LET filled == fillna(ReadCsv(rawFile))
    IN /\ Range(df) = Range(filled)
       /\ Len(df) = Cardinality(Range(filled))
       /\ \A i, j \in DOMAIN df :
            i < j => FirstIndex(filled, df[i]) < FirstIndex(filled, df[j])
       /\ duplicates_removed = Len(filled) - Cardinality(Range(filled))

C5_Witness ==
  /\ pc = "filter"
  /\ duplicates_removed > 0
  /\ Len(df) >= 2

RECURSIVE SumOfGroups(_, _)
SumOfGroups(g, keys) ==
  IF keys = {} THEN [sum |-> 0, count |-> 0]
  ELSE LET k == CHOOSE x \in keys : TRUE
           rest == SumOfGroups(g, keys \ {k})
       IN [sum |-> g[k].sum + rest.sum, count |-> g[k].count + rest.count]

SumOfStats(stats) ==
  LET acc[i \in 0..Len(stats)] ==
        IF i = 0 THEN [sum |-> 0, count |-> 0]
        ELSE [sum |-> acc[i - 1].sum + stats[i].total_sales,
              count |-> acc[i - 1].count + stats[i].transaction_count]
  IN acc[Len(stats)]

ReportedCategories == apc \in {"states", "days", "charts", "finish", "returned"}

\* C6: the per-category totals add up to the overall sales_amount sum, and
\* the per-category counts to the number of rows, in the Cleaner's summary
\* and in the Analyzer's report.
C6_CategoryTotalsAddUp ==
  /\ pc = "returned" =>
       LET all == SumOfGroups(summary.category_summary,
                              DOMAIN summary.category_summary)
       IN all.sum = summary.total /\ all.count = Len(df)
  /\ ReportedCategories =>
       LET all == SumOfStats(report.category_stats)
       IN all.sum = report.total /\ all.count = report.transactions

C6_Witness ==
  /\ apc = "returned"
  /\ Len(report.category_stats) >= 2
  /\ report.total > 0
  /\ Cardinality(DOMAIN summary.category_summary) >= 2
  /\ "UNCATEGORIZED" \in DOMAIN summary.category_summary

\* C7: a failure of clean_sales_data reaches its caller as the exception
\* that was raised; the caller receives FileNotFoundError exactly when the
\* input file is missing, and then no cleaned file has been written.
C7_FailurePropagated ==
  /\ (exc # NoException /\ ~CleanerRunning) =>
        (pc = "raised" /\ propagated = exc)
  /\ pc = "returned" => (exc = NoException /\ propagated = NoException)
  /\ pc = "raised" => propagated # NoException
  /\ ~CleanerRunning =>
        ((propagated = "FileNotFoundError") <=> ~rawFile.exists)
  /\ ~rawFile.exists => ~outFile.exists

C7_Witness ==
  /\ pc = "raised"
  /\ ~rawFile.exists
  /\ propagated = "FileNotFoundError"
  /\ ~outFile.exists

CleanerSites == {"read_csv", "to_datetime", "dt_accessor", "apply"}

AnalyzerSites == {"analyzer_read_csv", "top_state", "create_visualizations"}

ReportComplete ==
  /\ report.period \in ValidDates \X ValidDates
  /\ report.transactions > 0
  /\ report.category_stats # <<>>
  /\ report.top_state # NoText
  /\ report.best_day # NaT

Revenue(key, k) == SumAmounts(SelectSeq(adf, LAMBDA row : row[key] = k))

\* C9: for every cleaned dataset the Cleaner produces, analyze_sales_data
\* prints its report: at most five categories in non-increasing order of
\* total revenue, a state of maximal total revenue, a day of maximal total
\* sales.
C9_ReportForEveryCleanedDataset ==
  pc = "returned" =>
    /\ apc \notin {"except", "raised"}
    /\ apc = "returned" =>
         /\ Len(report.category_stats) <= 5
         /\ \A i \in DOMAIN report.category_stats :
              report.category_stats[i].total_sales =
                Revenue("product_category", report.category_stats[i].category)
         /\ \A i, j \in DOMAIN report.category_stats :
              i < j => report.category_stats[i].total_sales
                         >= report.category_stats[j].total_sales
         /\ \A i \in DOMAIN adf :
              /\ Revenue("state", report.top_state)
                   >= Revenue("state", adf[i].state)
              /\ Revenue("transaction_date", report.best_day)
                   >= Revenue("transaction_date", adf[i].transaction_date)

\* The cleaning steps 1-4 applied in a given order, then steps 5-7.
ApplyStep(k, st) ==
  IF ~st.ok THEN st
  ELSE CASE k = 1 -> [st EXCEPT !.rows = fillna(@)]
         [] k = 2 -> [st EXCEPT !.rows = drop_duplicates(@)]
         [] k = 3 -> [st EXCEPT !.rows = filter_nonnegative(@)]
         [] k = 4 -> IF MixedOffsets(st.rows)
                     THEN [ok |-> FALSE, rows |-> <<>>]
                     ELSE [st EXCEPT !.rows = dropna_dates(to_datetime(@))]

CleanIn(order, rows) ==
  LET st[i \in 0..Len(order)] ==
        IF i = 0 THEN [ok |-> TRUE, rows |-> rows]
        ELSE ApplyStep(order[i], st[i - 1])
      last == st[Len(order)]
  IN IF ~last.ok THEN last
     ELSE [last EXCEPT !.rows =
             apply_jurisdiction(apply_categorize(derive_features(@)))]

StepOrders ==
  { o \in [1..4 -> 1..4] : \A i, j \in 1..4 : i # j => o[i] # o[j] }

SameAsImplemented(orders) ==
  /\ pc = "save" =>
       \A o \in orders :
         CleanIn(o, ReadCsv(rawFile)) = [ok |-> TRUE, rows |-> df]
  /\ (pc = "except" /\ exc = "AttributeError") =>
       \A o \in orders : ~CleanIn(o, ReadCsv(rawFile)).ok

\* C10 as stated: steps 1-4 applied in any order, followed by steps 5-7,
\* yield the cleaned rows of the implemented order 1,2,3,4.
C10_AnyStepOrder == SameAsImplemented(StepOrders)

\* C10 amended: exchanging step 2 (exact-duplicate removal) and step 3
\* (negative-amount filter), with step 1 first and step 4 last, yields the
\* cleaned rows of the implemented order.
C10_DedupFilterExchange == SameAsImplemented({<<1, 3, 2, 4>>})

C10_Witness ==
  /\ pc = "save"
  /\ duplicates_removed > 0
  /\ \E i \in DOMAIN rawFile.rows :
       rawFile.rows[i].sales_amount # NaN /\ Val(rawFile.rows[i].sales_amount) < 0
  /\ Len(df) >= 1

====
